---- MODULE Spec2Model ----
(***************************************************************************)
(* FinGenie (Lite): the statement pipeline of modules/utils.py             *)
(* (extract_text cascade, detect_bank, parse_kotak_statement,              *)
(* parse_text_generic), the upload handler of app.py and the categorizer   *)
(* of modules/categorize_transactions.py.                                  *)
(*                                                                         *)
(* Text is a sequence of one-character strings, so that the regular        *)
(* expressions of the source are computed character by character.         *)
(* Amounts are held in hundredths (float("12.5") is 1250).                 *)
(***************************************************************************)
EXTENDS Integers, Sequences, FiniteSets, TLC

(***************************************************************************)
(* Characters                                                              *)
(***************************************************************************)
NL == "\n"

Digits == <<"0", "1", "2", "3", "4", "5", "6", "7", "8", "9">>

UpperLetters ==
  <<"A", "B", "C", "D", "E", "F", "G", "H", "I", "J", "K", "L", "M",
    "N", "O", "P", "Q", "R", "S", "T", "U", "V", "W", "X", "Y", "Z">>

LowerLetters ==
  <<"a", "b", "c", "d", "e", "f", "g", "h", "i", "j", "k", "l", "m",
    "n", "o", "p", "q", "r", "s", "t", "u", "v", "w", "x", "y", "z">>

Range(f) == {f[i] : i \in DOMAIN f}

DigitChars == Range(Digits)

AlphaChars == Range(UpperLetters) \cup Range(LowerLetters)

\* \w of the re module: letters, digits, underscore
WordChars == AlphaChars \cup DigitChars \cup {"_"}

\* \s of the re module and the default of str.strip(), on this alphabet
SpaceChars == {" ", NL, "\t"}

\* int(c) of each digit character
DigitValues == [c \in DigitChars |-> CHOOSE i \in 0..9 : Digits[i + 1] = c]

\* c.lower() of each upper-case letter
LowerOf ==
  [c \in Range(UpperLetters) |->
     LowerLetters[CHOOSE i \in DOMAIN UpperLetters : UpperLetters[i] = c]]

IsDigit(c) == c \in DigitChars

IsAlpha(c) == c \in AlphaChars

IsSpace(c) == c \in SpaceChars

IsWordChar(c) == c \in WordChars

DigitVal(c) == DigitValues[c]

\* str.lower() on one character
LowerChar(c) == IF c \in DOMAIN LowerOf THEN LowerOf[c] ELSE c

\* str.lower()
LowerSeq(s) == [i \in 1..Len(s) |-> LowerChar(s[i])]

(***************************************************************************)
(* String primitives                                                       *)
(***************************************************************************)
\* s[i-1:].startswith(w), 1-based
StartsWithAt(s, i, w) ==
  /\ i >= 1
  /\ i + Len(w) - 1 <= Len(s)
  /\ \A k \in 1..Len(w) : s[i + k - 1] = w[k]

\* w in s
Contains(s, w) == \E i \in 1..(Len(s) - Len(w) + 1) : StartsWithAt(s, i, w)

\* \b between s[i-1] and s[i] (i in 1..Len(s)+1)
WordBoundary(s, i) ==
  LET before == i > 1 /\ i - 1 <= Len(s) /\ IsWordChar(s[i - 1])
      after  == i >= 1 /\ i <= Len(s) /\ IsWordChar(s[i])
  IN before # after

\* n digits at s[i..i+n-1]
AllDigits(s, i, n) ==
  /\ i >= 1
  /\ i + n - 1 <= Len(s)
  /\ \A k \in 0..(n - 1) : IsDigit(s[i + k])

\* n letters [A-Za-z] at s[i..i+n-1]
AllAlpha(s, i, n) ==
  /\ i >= 1
  /\ i + n - 1 <= Len(s)
  /\ \A k \in 0..(n - 1) : IsAlpha(s[i + k])

\* n whitespace characters at s[i..i+n-1]
AllSpace(s, i, n) ==
  /\ i >= 1
  /\ i + n - 1 <= Len(s)
  /\ \A k \in 0..(n - 1) : IsSpace(s[i + k])

CharAt(s, i, c) == i >= 1 /\ i <= Len(s) /\ s[i] = c

RECURSIVE LStrip(_)
\* str.lstrip()
LStrip(s) ==
  IF s = <<>> THEN <<>>
  ELSE IF IsSpace(s[1]) THEN LStrip(Tail(s)) ELSE s

RECURSIVE RStrip(_)
\* str.rstrip()
RStrip(s) ==
  IF s = <<>> THEN <<>>
  ELSE IF IsSpace(s[Len(s)]) THEN RStrip(SubSeq(s, 1, Len(s) - 1)) ELSE s

\* str.strip()
Strip(s) == LStrip(RStrip(s))

RECURSIVE SplitLines(_)
\* str.splitlines() on the line terminator "\n"
SplitLines(s) ==
  LET ends == {k \in 1..Len(s) : s[k] = NL}
      k    == CHOOSE x \in ends : \A y \in ends : x <= y
  IN IF s = <<>> THEN <<>>
     ELSE IF ends # {}
          THEN <<SubSeq(s, 1, k - 1)>> \o SplitLines(SubSeq(s, k + 1, Len(s)))
          ELSE <<s>>

RECURSIVE Join(_, _)
\* sep.join(parts)
Join(parts, sep) ==
  IF parts = <<>> THEN <<>>
  ELSE IF Len(parts) = 1 THEN parts[1]
  ELSE parts[1] \o sep \o Join(Tail(parts), sep)

RECURSIVE RemoveAll(_, _)
\* s.replace(w, ""), w non-empty
RemoveAll(s, w) ==
  IF s = <<>> THEN <<>>
  ELSE IF StartsWithAt(s, 1, w)
       THEN RemoveAll(SubSeq(s, Len(w) + 1, Len(s)), w)
       ELSE <<s[1]>> \o RemoveAll(Tail(s), w)

\* [f(x) for x in seq]
MapStrip(lines) == [i \in 1..Len(lines) |-> Strip(lines[i])]

MapRStrip(lines) == [i \in 1..Len(lines) |-> RStrip(lines[i])]

(***************************************************************************)
(* Patterns (utils.py lines 30-36)                                         *)
(***************************************************************************)
IsDateSep(s, i) == CharAt(s, i, "/") \/ CharAt(s, i, "-")

RECURSIVE DigitRun(_, _)
\* the number of consecutive digits from position i
DigitRun(s, i) ==
  IF i >= 1 /\ i <= Len(s) /\ IsDigit(s[i]) THEN 1 + DigitRun(s, i + 1) ELSE 0

RECURSIVE SpaceRun(_, _)
\* the number of consecutive whitespace characters from position i
SpaceRun(s, i) ==
  IF i >= 1 /\ i <= Len(s) /\ IsSpace(s[i]) THEN 1 + SpaceRun(s, i + 1) ELSE 0

\* \b\d{1,2}[/-]\d{1,2}[/-]\d{2,4}\b at position i: the position after the
\* match, 0 when there is none.  Each \d{m,n} is followed by what is no
\* digit, so it takes the whole run of digits or the match fails.
DateNumericEnd(s, i) ==
  LET a == DigitRun(s, i)
      b == DigitRun(s, i + a + 1)
      c == DigitRun(s, i + a + b + 2)
      e == i + a + b + 2 + c
  IN IF /\ WordBoundary(s, i)
        /\ a \in 1..2
        /\ IsDateSep(s, i + a)
        /\ b \in 1..2
        /\ IsDateSep(s, i + a + 1 + b)
        /\ c \in 2..4
        /\ WordBoundary(s, e)
     THEN e ELSE 0

\* \b\d{1,2}-[A-Za-z]{3}-\d{2,4}\b at position i, likewise
DateDayMonEnd(s, i) ==
  LET a == DigitRun(s, i)
      c == DigitRun(s, i + a + 5)
      e == i + a + 5 + c
  IN IF /\ WordBoundary(s, i)
        /\ a \in 1..2
        /\ CharAt(s, i + a, "-")
        /\ AllAlpha(s, i + a + 1, 3)
        /\ CharAt(s, i + a + 4, "-")
        /\ c \in 2..4
        /\ WordBoundary(s, e)
     THEN e ELSE 0

\* \b[A-Za-z]{3}\s+\d{1,2},\s*\d{4}\b at position i, likewise
DateMonDayEnd(s, i) ==
  LET sp  == SpaceRun(s, i + 3)
      a   == DigitRun(s, i + 3 + sp)
      sp2 == SpaceRun(s, i + 4 + sp + a)
      y   == i + 4 + sp + a + sp2
  IN IF /\ WordBoundary(s, i)
        /\ AllAlpha(s, i, 3)
        /\ sp >= 1
        /\ a \in 1..2
        /\ CharAt(s, i + 3 + sp + a, ",")
        /\ DigitRun(s, y) = 4
        /\ WordBoundary(s, y + 4)
     THEN y + 4 ELSE 0

\* the smallest element of a non-empty set of numbers
MinOf(S) == CHOOSE x \in S : \A y \in S : x <= y

\* the largest element of a non-empty set of numbers
MaxOf(S) == CHOOSE x \in S : \A y \in S : y <= x

\* "|".join(DATE_PATTERNS) at position i: the position after the match, 0
\* when there is none; the alternatives are tried in the list's order
DateEnd(s, i) ==
  IF DateNumericEnd(s, i) # 0 THEN DateNumericEnd(s, i)
  ELSE IF DateDayMonEnd(s, i) # 0 THEN DateDayMonEnd(s, i)
  ELSE DateMonDayEnd(s, i)

\* "|".join(DATE_PATTERNS) matches at position i
DATE_PATTERNS(s, i) == DateEnd(s, i) # 0

\* re.search("|".join(DATE_PATTERNS), s) is not None
HasDate(s) == \E i \in 1..Len(s) : DATE_PATTERNS(s, i)

\* date_head.search(ln): ^\s*(date)
DateHead(s) ==
  \E k \in 0..Len(s) : AllSpace(s, 1, k) /\ DATE_PATTERNS(s, k + 1)

RECURSIVE ThousandsEnd(_, _)
\* (?:,\d{3})* from position k: the position after the last group
ThousandsEnd(s, k) ==
  IF CharAt(s, k, ",") /\ AllDigits(s, k + 1, 3)
  THEN ThousandsEnd(s, k + 4)
  ELSE k

\* (?:\.\d{1,2})? from position k: the position after it
FractionEnd(s, k) ==
  IF CharAt(s, k, ".") /\ AllDigits(s, k + 1, 1)
  THEN IF AllDigits(s, k + 2, 1) THEN k + 3 ELSE k + 2
  ELSE k

\* AMOUNT_PAT at position i: the position after the match, 0 when there is
\* none.  The first alternative, [+-]?\d{1,3}(?:,\d{3})*(?:\.\d{1,2})?,
\* matches wherever the second would, so the second is never taken.
AMOUNT_PAT(s, i) ==
  LET signed == (CharAt(s, i, "+") \/ CharAt(s, i, "-")) /\ AllDigits(s, i + 1, 1)
      j      == IF signed THEN i + 1 ELSE i
      run    == DigitRun(s, j)
      d      == IF run > 3 THEN 3 ELSE run
  IN IF run = 0 THEN 0 ELSE FractionEnd(s, ThousandsEnd(s, j + d))

RECURSIVE FindAllFrom(_, _)
FindAllFrom(s, i) ==
  IF i > Len(s) THEN <<>>
  ELSE LET e == AMOUNT_PAT(s, i)
       IN IF e = 0 THEN FindAllFrom(s, i + 1)
          ELSE <<SubSeq(s, i, e - 1)>> \o FindAllFrom(s, e)

\* re.findall(AMOUNT_PAT, s)
FindAll(s) == FindAllFrom(s, 1)

RECURSIVE DigitsValue(_)
\* int() of a digit string ("" is 0)
DigitsValue(ds) ==
  IF ds = <<>> THEN 0
  ELSE 10 * DigitsValue(SubSeq(ds, 1, Len(ds) - 1)) + DigitVal(ds[Len(ds)])

\* float(tok.replace(",", "")) of a token AMOUNT_PAT matched, in hundredths
FloatOf(tok) ==
  LET t     == RemoveAll(tok, <<",">>)
      neg   == t[1] = "-"
      u     == IF t[1] \in {"+", "-"} THEN Tail(t) ELSE t
      dot   == IF \E k \in 1..Len(u) : u[k] = "."
               THEN CHOOSE k \in 1..Len(u) : u[k] = "."
               ELSE Len(u) + 1
      whole == DigitsValue(SubSeq(u, 1, dot - 1))
      frac  == SubSeq(u, dot + 1, Len(u))
      cents == IF Len(frac) = 0 THEN 0
               ELSE IF Len(frac) = 1 THEN 10 * DigitsValue(frac)
               ELSE DigitsValue(frac)
      mag   == 100 * whole + cents
  IN IF neg THEN 0 - mag ELSE mag

\* abs()
Abs(v) == IF v < 0 THEN 0 - v ELSE v

\* CRDR_PAT's alternatives
CRDR_WORDS ==
  { <<"C", "R">>, <<"C", "R", "E", "D", "I", "T">>, <<"C", "r">>,
    <<"C", "r", "e", "d", "i", "t">>, <<"D", "R">>,
    <<"D", "E", "B", "I", "T">>, <<"D", "r">>, <<"D", "e", "b", "i", "t">> }

\* CRDR_PAT matches at position i
CRDR_PAT(s, i) ==
  /\ WordBoundary(s, i)
  /\ \E w \in CRDR_WORDS : StartsWithAt(s, i, w) /\ WordBoundary(s, i + Len(w))

\* re.search(CRDR_PAT, s): the position of the leftmost match, 0 when none
MarkerPos(s) ==
  LET at == {i \in 1..Len(s) : CRDR_PAT(s, i)}
  IN IF at # {} THEN MinOf(at) ELSE 0

\* a literal word with \b on both sides is found in s
HasWord(s, w) ==
  \E i \in 1..Len(s) :
    WordBoundary(s, i) /\ StartsWithAt(s, i, w) /\ WordBoundary(s, i + Len(w))

\* a literal word with \b before it only is found in s
HasWordPrefix(s, w) ==
  \E i \in 1..Len(s) : WordBoundary(s, i) /\ StartsWithAt(s, i, w)

\* the character U+20B9, the rupee sign, is written "U+20B9"
RUPEE == "U+20B9"

INR == <<"I", "N", "R">>

\* s.replace(RUPEE, "").replace("INR", "")
StripCurrency(s) == RemoveAll(RemoveAll(s, <<RUPEE>>), INR)

RECURSIVE RemoveDatesFrom(_, _)
RemoveDatesFrom(s, i) ==
  IF i > Len(s) THEN <<>>
  ELSE IF DateEnd(s, i) # 0 THEN RemoveDatesFrom(s, DateEnd(s, i))
       ELSE <<s[i]>> \o RemoveDatesFrom(s, i + 1)

\* re.sub(date_union, "", s)
RemoveDates(s) == RemoveDatesFrom(s, 1)

\* \d{1,3}(?:,\d{3})* matches the whole of w
IsGroupedInt(w) ==
  \E d \in 1..3 :
    /\ AllDigits(w, 1, d)
    /\ (Len(w) - d) % 4 = 0
    /\ \A k \in 0..((Len(w) - d) \div 4 - 1) :
         CharAt(w, d + 1 + 4 * k, ",") /\ AllDigits(w, d + 2 + 4 * k, 3)

\* AMOUNT_PAT matches the whole of u, by either alternative
IsAmountToken(u) ==
  LET v     == IF u # <<>> /\ u[1] \in {"+", "-"} THEN Tail(u) ELSE u
      dots  == {k \in 1..Len(v) : v[k] = "."}
      whole == IF dots = {} THEN v ELSE SubSeq(v, 1, MaxOf(dots) - 1)
      frac  == IF dots = {} THEN <<>> ELSE SubSeq(v, MaxOf(dots) + 1, Len(v))
  IN /\ Cardinality(dots) <= 1
     /\ dots # {} => (Len(frac) \in 1..2 /\ AllDigits(frac, 1, Len(frac)))
     /\ whole # <<>>
     /\ (AllDigits(whole, 1, Len(whole)) \/ IsGroupedInt(whole))

\* (Cr|Dr) under re.IGNORECASE matches the whole of u
IsCrDr(u) == LowerSeq(u) \in { <<"c", "r">>, <<"d", "r">> }

\* \s*(Cr|Dr)?$ (generic) or \s*(Cr|DR|CR|Dr)?\s*$ (kotak, trail = TRUE)
\* matches the whole of u
IsAmountTail(u, trail) ==
  \E a \in 0..Len(u), m \in {0, 2} :
    /\ a + m <= Len(u)
    /\ AllSpace(u, 1, a)
    /\ m = 2 => IsCrDr(SubSeq(u, a + 1, a + 2))
    /\ IF trail THEN AllSpace(u, a + m + 1, Len(u) - a - m)
                ELSE a + m = Len(u)

RECURSIVE AmountCharRun(_, _)
\* the number of consecutive characters of [0-9,.] from position i
AmountCharRun(s, i) ==
  IF i >= 1 /\ i <= Len(s) /\ (IsDigit(s[i]) \/ s[i] \in {",", "."})
  THEN 1 + AmountCharRun(s, i + 1) ELSE 0

\* AMOUNT_PAT followed by the tail matches from position i to the end of s;
\* what AMOUNT_PAT matches is a sign or a digit followed by [0-9,.] only
TrailingAmountAt(s, i, trail) ==
  /\ IsDigit(s[i]) \/ s[i] \in {"+", "-"}
  /\ \E j \in (i + 1)..(i + 1 + AmountCharRun(s, i + 1)) :
       /\ IsAmountToken(SubSeq(s, i, j - 1))
       /\ IsAmountTail(SubSeq(s, j, Len(s)), trail)

\* re.sub(rf"{AMOUNT_PAT}\s*(Cr|Dr)?$", "", s, flags=re.IGNORECASE): the
\* leftmost match runs to the end of s
RemoveTrailingAmount(s, trail) ==
  LET at == {i \in 1..Len(s) : TrailingAmountAt(s, i, trail)}
  IN IF at # {} THEN SubSeq(s, 1, MinOf(at) - 1) ELSE s

RECURSIVE LStripChars(_, _)
LStripChars(s, cs) ==
  IF s = <<>> THEN <<>>
  ELSE IF s[1] \in cs THEN LStripChars(Tail(s), cs) ELSE s

RECURSIVE RStripChars(_, _)
RStripChars(s, cs) ==
  IF s = <<>> THEN <<>>
  ELSE IF s[Len(s)] \in cs THEN RStripChars(SubSeq(s, 1, Len(s) - 1), cs) ELSE s

\* s.strip(" -:|")
StripSeparators(s) == LStripChars(RStripChars(s, {" ", "-", ":", "|"}), {" ", "-", ":", "|"})

\* the placeholder of an empty description
\* the character U+2014 is written "U+2014"
DASH == <<"U+2014">>

\* lines 247-248 and 252 (generic), lines 214-215 and 222 (kotak, trail = TRUE)
Narration(s, trail) ==
  LET d == StripSeparators(RemoveTrailingAmount(Strip(RemoveDates(s)), trail))
  IN IF d # <<>> THEN d ELSE DASH

(***************************************************************************)
(* detect_bank (utils.py lines 163-169)                                    *)
(***************************************************************************)
KotakName == <<"k", "o", "t", "a", "k", " ", "m", "a", "h", "i", "n", "d", "r", "a", " ", "b", "a", "n", "k">>

WithdrawalAmt == <<"w", "i", "t", "h", "d", "r", "a", "w", "a", "l", " ", "a", "m", "t">>

DepositAmt == <<"d", "e", "p", "o", "s", "i", "t", " ", "a", "m", "t">>

BalanceWord == <<"b", "a", "l", "a", "n", "c", "e">>

detect_bank(text) ==
  LET t == LowerSeq(text)
  IN IF \/ Contains(t, KotakName)
        \/ (Contains(t, WithdrawalAmt) /\ Contains(t, DepositAmt)
              /\ Contains(t, BalanceWord))
     THEN "kotak"
     ELSE "generic"

(***************************************************************************)
(* parse_kotak_statement (utils.py lines 172-226).  A row keeps the        *)
(* Description, Amount and Type columns; the Date column is not modelled.  *)
(***************************************************************************)
RECURSIVE KotakBlocks(_, _)
\* the loop of lines 176-184: cur is the block being accumulated
KotakBlocks(lines, cur) ==
  IF lines = <<>>
  THEN IF cur # <<>> THEN <<Join(cur, <<NL>>)>> ELSE <<>>
  ELSE IF DateHead(Head(lines)) /\ cur # <<>>
       THEN <<Join(cur, <<NL>>)>> \o KotakBlocks(Tail(lines), <<Head(lines)>>)
       ELSE KotakBlocks(Tail(lines), cur \o <<Head(lines)>>)

\* one = " ".join(ln.strip() for ln in blk.splitlines())
KotakOne(blk) == Join(MapStrip(SplitLines(blk)), <<" ">>)

RECURSIVE LastNonZero(_)
\* lines 199-207: the last token of tail whose value is not zero, as a
\* sequence of at most one value
LastNonZero(tail) ==
  IF tail = <<>> THEN <<>>
  ELSE IF Abs(FloatOf(tail[Len(tail)])) > 0
       THEN <<FloatOf(tail[Len(tail)])>>
       ELSE LastNonZero(SubSeq(tail, 1, Len(tail) - 1))

\* lines 197-212
KotakAmount(nums) ==
  LET bal_token == nums[Len(nums)]
      tail      == IF Len(nums) > 1 THEN SubSeq(nums, 1, Len(nums) - 1) ELSE <<>>
      found     == LastNonZero(tail)
  IN IF found # <<>> THEN found[1] ELSE FloatOf(bal_token)

\* re.search(r"\bcr\b|\bcredit\b|\bdeposit\b", low)
KotakCreditWord(low) ==
  \/ HasWord(low, <<"c", "r">>)
  \/ HasWord(low, <<"c", "r", "e", "d", "i", "t">>)
  \/ HasWord(low, <<"d", "e", "p", "o", "s", "i", "t">>)

\* re.search(r"\bdr\b|\bdebit\b|\bwithdraw", low)
KotakDebitWord(low) ==
  \/ HasWord(low, <<"d", "r">>)
  \/ HasWord(low, <<"d", "e", "b", "i", "t">>)
  \/ HasWordPrefix(low, <<"w", "i", "t", "h", "d", "r", "a", "w">>)

\* a type in which the credit keyword is not overridden
KotakTypeCreditWins(low) ==
  IF KotakCreditWord(low) THEN "Credit" ELSE "Debit"

\* lines 216-219
KotakType(low) ==
  LET ttype == IF KotakCreditWord(low) THEN "Credit" ELSE "Debit"
  IN IF KotakDebitWord(low) THEN "Debit" ELSE ttype

\* the body of the loop of lines 187-225 on one block: its rows (none or one)
KotakRow(blk) ==
  IF ~HasDate(blk) THEN <<>>
  ELSE LET one  == KotakOne(blk)
           nums == FindAll(StripCurrency(one))
       IN IF nums = <<>> THEN <<>>
          ELSE << [ Description |-> Narration(one, TRUE),
                    Amount      |-> Abs(KotakAmount(nums)),
                    Type        |-> KotakType(LowerSeq(one)) ] >>

RECURSIVE KotakRows(_)
KotakRows(blocks) ==
  IF blocks = <<>> THEN <<>>
  ELSE KotakRow(Head(blocks)) \o KotakRows(Tail(blocks))

parse_kotak_statement(text) ==
  KotakRows(KotakBlocks(MapRStrip(SplitLines(text)), <<>>))

(***************************************************************************)
(* parse_text_generic (utils.py lines 229-256)                             *)
(***************************************************************************)
\* line 249
GenericType(ln) ==
  LET marker == MarkerPos(ln)
  IN IF \/ (marker # 0 /\ StartsWithAt(LowerSeq(ln), marker, <<"c", "r">>))
        \/ Contains(LowerSeq(ln), <<" ", "c", "r", "e", "d", "i", "t">>)
     THEN "Credit"
     ELSE "Debit"

\* an amount that keeps its sign
GenericAmountSigned(nums) == FloatOf(nums[Len(nums)])

\* line 253
GenericAmount(nums) == Abs(FloatOf(nums[Len(nums)]))

\* the body of the loop of lines 233-255 on one line: its rows (none or one)
GenericRow(ln) ==
  IF ~HasDate(ln) THEN <<>>
  ELSE LET nums == FindAll(StripCurrency(ln))
       IN IF nums = <<>> THEN <<>>
          ELSE << [ Description |-> Narration(ln, FALSE),
                    Amount      |-> GenericAmount(nums),
                    Type        |-> GenericType(ln) ] >>

RECURSIVE GenericRows(_)
GenericRows(lines) ==
  IF lines = <<>> THEN <<>>
  ELSE GenericRow(Head(lines)) \o GenericRows(Tail(lines))

\* line 230: [ln.strip() for ln in text.splitlines() if ln.strip()]
NonBlankLines(text) ==
  SelectSeq(MapStrip(SplitLines(text)), LAMBDA ln : ln # <<>>)

parse_text_generic(text) == GenericRows(NonBlankLines(text))

(***************************************************************************)
(* categorize_transactions (categorize_transactions.py lines 4-22)         *)
(***************************************************************************)
\* CATEGORY_RULES in the dict's order; a pattern is its literal
\* alternatives (lits) and its "a.*b" alternatives (gaps)
CATEGORY_RULES ==
  <<
    [ lits |-> { <<"s", "a", "l", "a", "r", "y">>,
                 <<"i", "n", "c", "o", "m", "e">>,
                 <<"r", "e", "f", "u", "n", "d">>,
                 <<"p", "a", "r", "e", "n", "t">>,
                 <<"f", "d", " ", "m", "a", "t", "u", "r", "i", "t", "y">> },
      gaps |-> { <<<<"c", "r", "e", "d", "i", "t">>, <<"a", "c", "m", "e">>>> },
      cat  |-> "Income / Credits" ],
    [ lits |-> { <<"s", "w", "i", "g", "g", "y">>,
                 <<"z", "o", "m", "a", "t", "o">>,
                 <<"r", "e", "s", "t", "a", "u", "r", "a", "n", "t">>,
                 <<"s", "t", "a", "r", "b", "u", "c", "k", "s">> },
      gaps |-> {  },
      cat  |-> "Food & Drinks" ],
    [ lits |-> { <<"u", "b", "e", "r">>,
                 <<"o", "l", "a">>,
                 <<"r", "a", "p", "i", "d", "o">>,
                 <<"p", "a", "y", "t", "m">> },
      gaps |-> {  },
      cat  |-> "Transport" ],
    [ lits |-> { <<"a", "m", "a", "z", "o", "n">>,
                 <<"f", "l", "i", "p", "k", "a", "r", "t">>,
                 <<"b", "o", "o", "k", "s", "t", "o", "r", "e">>,
                 <<"c", "l", "o", "t", "h", "i", "n", "g">> },
      gaps |-> {  },
      cat  |-> "Shopping" ],
    [ lits |-> { <<"a", "t", "m">>,
                 <<"w", "i", "t", "h", "d", "r", "a", "w">> },
      gaps |-> {  },
      cat  |-> "Cash Withdrawal" ],
    [ lits |-> { <<"r", "e", "n", "t">> },
      gaps |-> {  },
      cat  |-> "Rent / Housing" ],
    [ lits |-> { <<"t", "a", "x">>,
                 <<"e", "l", "e", "c", "t", "r", "i", "c", "i", "t", "y">>,
                 <<"l", "i", "c">> },
      gaps |-> {  },
      cat  |-> "Bills & Utilities" ],
    [ lits |-> { <<"m", "u", "t", "u", "a", "l", " ", "f", "u", "n", "d">>,
                 <<"s", "i", "p">> },
      gaps |-> {  },
      cat  |-> "Investments" ],
    [ lits |-> { <<"g", "r", "o", "c", "e", "r", "y">>,
                 <<"g", "r", "o", "c", "e", "r">> },
      gaps |-> {  },
      cat  |-> "Groceries" ]
  >>

\* a.*b is found in d ("." does not match a line terminator)
GapMatch(d, a, b) ==
  \E i \in 1..Len(d), j \in 1..Len(d) :
    /\ StartsWithAt(d, i, a)
    /\ j >= i + Len(a)
    /\ StartsWithAt(d, j, b)
    /\ \A k \in (i + Len(a))..(j - 1) : d[k] # NL

\* line 20: str.contains(pattern) on the lower-cased description
RuleMatches(rule, d) ==
  \/ \E w \in rule.lits : Contains(d, w)
  \/ \E g \in rule.gaps : GapMatch(d, g[1], g[2])

\* line 21: df.loc[mask, "Category"] = cat, for one row
ApplyRule(rule, desc, cat) ==
  IF RuleMatches(rule, LowerSeq(desc)) THEN rule.cat ELSE cat

RECURSIVE CategoryLoop(_, _, _)
\* lines 19-21 from rule k on, for one row whose category is cat so far
CategoryLoop(desc, k, cat) ==
  IF k > Len(CATEGORY_RULES) THEN cat
  ELSE CategoryLoop(desc, k + 1, ApplyRule(CATEGORY_RULES[k], desc, cat))

\* the Category column of one row after categorize_transactions
CategoryOf(desc) == CategoryLoop(desc, 1, "Other")

\* lines 16-22 on a frame of descriptions
categorize_transactions(frame) ==
  [i \in 1..Len(frame) |->
     [ Description |-> frame[i].Description,
       Amount      |-> frame[i].Amount,
       Type        |-> frame[i].Type,
       Category    |-> CategoryOf(frame[i].Description) ]]

(***************************************************************************)
(* Inputs: statement lines, texts, descriptions                            *)
(***************************************************************************)
\* "Kotak Mahindra Bank"
LineKotakName ==
    <<"K", "o", "t", "a", "k", " ", "M", "a", "h", "i", "n", "d", "r", "a",
      " ", "B", "a", "n", "k">>

\* "01/09/2025 NEFT CR SALARY 45,000.00 95,000.00"
LineKotakCredit ==
    <<"0", "1", "/", "0", "9", "/", "2", "0", "2", "5", " ", "N", "E", "F",
      "T", " ", "C", "R", " ", "S", "A", "L", "A", "R", "Y", " ", "4", "5",
      ",", "0", "0", "0", ".", "0", "0", " ", "9", "5", ",", "0", "0", "0",
      ".", "0", "0">>

\* "02/09/2025 CREDIT REVERSAL OF DEBIT 500.00 94,500.00"
LineKotakBoth ==
    <<"0", "2", "/", "0", "9", "/", "2", "0", "2", "5", " ", "C", "R", "E",
      "D", "I", "T", " ", "R", "E", "V", "E", "R", "S", "A", "L", " ", "O",
      "F", " ", "D", "E", "B", "I", "T", " ", "5", "0", "0", ".", "0", "0",
      " ", "9", "4", ",", "5", "0", "0", ".", "0", "0">>

\* "Withdrawal Amt Deposit Amt Balance"
LineKotakHeader ==
    <<"W", "i", "t", "h", "d", "r", "a", "w", "a", "l", " ", "A", "m", "t",
      " ", "D", "e", "p", "o", "s", "i", "t", " ", "A", "m", "t", " ", "B",
      "a", "l", "a", "n", "c", "e">>

\* "UPI REF 7788 Dr"
LineContinuation ==
    <<"U", "P", "I", " ", "R", "E", "F", " ", "7", "7", "8", "8", " ", "D",
      "r">>

\* "02/09/2025 02/09/2025 SALARY CREDIT - ACME CORP 45000 95000 CREDIT"
LineSalary ==
    <<"0", "2", "/", "0", "9", "/", "2", "0", "2", "5", " ", "0", "2", "/",
      "0", "9", "/", "2", "0", "2", "5", " ", "S", "A", "L", "A", "R", "Y",
      " ", "C", "R", "E", "D", "I", "T", " ", "-", " ", "A", "C", "M", "E",
      " ", "C", "O", "R", "P", " ", "4", "5", "0", "0", "0", " ", "9", "5",
      "0", "0", "0", " ", "C", "R", "E", "D", "I", "T">>

\* "03/09/2025 03/09/2025 UPI PAYMENT - SWIGGY -350 94650 DEBIT"
LineSwiggy ==
    <<"0", "3", "/", "0", "9", "/", "2", "0", "2", "5", " ", "0", "3", "/",
      "0", "9", "/", "2", "0", "2", "5", " ", "U", "P", "I", " ", "P", "A",
      "Y", "M", "E", "N", "T", " ", "-", " ", "S", "W", "I", "G", "G", "Y",
      " ", "-", "3", "5", "0", " ", "9", "4", "6", "5", "0", " ", "D", "E",
      "B", "I", "T">>

\* "Opening Balance 01/09/2025 50000"
LineOpening ==
    <<"O", "p", "e", "n", "i", "n", "g", " ", "B", "a", "l", "a", "n", "c",
      "e", " ", "0", "1", "/", "0", "9", "/", "2", "0", "2", "5", " ", "5",
      "0", "0", "0", "0">>

\* ""
LineBlank ==
    <<>>

\* "Statement 05-Sep-2025"
LineDateOnly ==
    <<"S", "t", "a", "t", "e", "m", "e", "n", "t", " ", "0", "5", "-", "S",
      "e", "p", "-", "2", "0", "2", "5">>

\* "Sep 02, 2025 Deposit 10.5 Cr"
LineMonDay ==
    <<"S", "e", "p", " ", "0", "2", ",", " ", "2", "0", "2", "5", " ", "D",
      "e", "p", "o", "s", "i", "t", " ", "1", "0", ".", "5", " ", "C", "r">>

\* "  04/09/2025 ATM 0.00 -300 "
LineIndented ==
    <<" ", " ", "0", "4", "/", "0", "9", "/", "2", "0", "2", "5", " ", "A",
      "T", "M", " ", "0", ".", "0", "0", " ", "-", "3", "0", "0", " ">>

\* "05/09/2025 credit card bill 120 DR"
LineCardBill ==
    <<"0", "5", "/", "0", "9", "/", "2", "0", "2", "5", " ", "c", "r",
      "e", "d", "i", "t", " ", "c", "a", "r", "d", " ", "b", "i", "l",
      "l", " ", "1", "2", "0", " ", "D", "R">>

\* "01/09/2025 Closing Balance 95,000.00"
LineClosing ==
    <<"0", "1", "/", "0", "9", "/", "2", "0", "2", "5", " ", "C", "l",
      "o", "s", "i", "n", "g", " ", "B", "a", "l", "a", "n", "c", "e",
      " ", "9", "5", ",", "0", "0", "0", ".", "0", "0">>

FreeLines ==
  { LineKotakName,
    LineKotakCredit,
    LineKotakBoth,
    LineKotakHeader,
    LineContinuation,
    LineSalary,
    LineSwiggy,
    LineOpening,
    LineBlank,
    LineDateOnly,
    LineMonDay,
    LineIndented,
    LineCardBill,
    LineClosing }

\* "02/09/2025"
TokDate ==
    <<"0", "2", "/", "0", "9", "/", "2", "0", "2", "5">>

\* "SALARY CREDIT - ACME CORP"
NarrSalary ==
    <<"S", "A", "L", "A", "R", "Y", " ", "C", "R", "E", "D", "I", "T", " ",
      "-", " ", "A", "C", "M", "E", " ", "C", "O", "R", "P">>

\* "UPI PAYMENT - SWIGGY"
NarrSwiggy ==
    <<"U", "P", "I", " ", "P", "A", "Y", "M", "E", "N", "T", " ", "-", " ",
      "S", "W", "I", "G", "G", "Y">>

\* "45000"
Tok45000 ==
    <<"4", "5", "0", "0", "0">>

\* "-350"
TokMinus350 ==
    <<"-", "3", "5", "0">>

\* "7"
Tok7 ==
    <<"7">>

\* "95000"
Tok95000 ==
    <<"9", "5", "0", "0", "0">>

\* "94650"
Tok94650 ==
    <<"9", "4", "6", "5", "0">>

\* "500"
Tok500 ==
    <<"5", "0", "0">>

\* "CREDIT"
TokCREDIT ==
    <<"C", "R", "E", "D", "I", "T">>

\* "DEBIT"
TokDEBIT ==
    <<"D", "E", "B", "I", "T">>

\* the lines "<date> <date> <narration> <amount> <balance> <CREDIT|DEBIT>"
\* of the end-to-end scenarios, as their four varying fields
ScenarioForms ==
  [ narr : {NarrSalary, NarrSwiggy},
    amt  : {Tok45000, TokMinus350, Tok7},
    bal  : {Tok95000, Tok94650, Tok500},
    mark : {TokCREDIT, TokDEBIT} ]

ScenarioLine(f) ==
  Join(<<TokDate, TokDate, f.narr, f.amt, f.bal, f.mark>>, <<" ">>)

\* the longest statement, in lines
MaxLines == 2

\* the sequences over S of length 1..n
SeqsUpTo(S, n) == UNION {[1..k -> S] : k \in 1..n}

\* the statement texts given to the parsers: text.strip() is not empty
\* (process_pdf_to_df line 45)
ParseTexts ==
  { t \in { Join(ls, <<NL>>) : ls \in SeqsUpTo(FreeLines, MaxLines) }
            \cup { ScenarioLine(f) : f \in ScenarioForms } :
      Strip(t) # <<>> }

\* "Parent"
WordParent ==
    <<"P", "a", "r", "e", "n", "t">>

\* "rent"
WordRent ==
    <<"r", "e", "n", "t">>

\* "AMAZON"
WordAmazon ==
    <<"A", "M", "A", "Z", "O", "N">>

\* "refund"
WordRefund ==
    <<"r", "e", "f", "u", "n", "d">>

\* "Swiggy"
WordSwiggy ==
    <<"S", "w", "i", "g", "g", "y">>

\* "atm"
WordAtm ==
    <<"a", "t", "m">>

\* "misc"
WordMisc ==
    <<"m", "i", "s", "c">>

DescWords ==
  { WordParent, WordRent, WordAmazon, WordRefund, WordSwiggy, WordAtm, WordMisc }

\* descriptions of one word or of two words
Descriptions ==
  DescWords \cup { Join(<<a, b>>, <<" ">>) : a \in DescWords, b \in DescWords }

\* the most rows of a frame given to the categorizer
MaxRows == 1

\* the frames given to categorize_transactions
Frames ==
  SeqsUpTo([ Description : Descriptions, Amount : {100}, Type : {"Debit"} ], MaxRows)

\* the text layer of one page: none, or a statement line (two pages
\* without text give the text "\n", which is blank and not empty)
PageTexts == { <<>>, LineKotakName, LineSwiggy }

\* the most pages of a document
MaxPages == 2

\* the page texts of a document of 0..MaxPages pages
PageLists == {<<>>} \cup SeqsUpTo(PageTexts, MaxPages)

(***************************************************************************)
(* Diagnostics notes.  A note is the sequence of the fragments it was      *)
(* concatenated from; a fragment records what it says (kind), how many of  *)
(* its characters are in the note (len) out of how many it had (full),     *)
(* where "no text" occurs in it (nt, 1-based, 0 when nowhere) and whether  *)
(* it begins with a space (lead).                                          *)
(***************************************************************************)
\* the length of an exception's message, short and long
ShortMsgLen == 12

LongMsgLen == 1200

\* str(e): its length and where "no text" occurs in its lower case
Messages ==
  { [len |-> ShortMsgLen, nt |-> 0], [len |-> ShortMsgLen, nt |-> 1],
    [len |-> LongMsgLen, nt |-> 0] }

\* [:1000] of lines 117, 140, 156
NoteCap == 1000

\* len("no text"), line 121
NoTextLen == 7

\* len("pdfplumber error: "), line 87
PlumberPrefixLen == 18

\* len(" | pymupdf error: "), line 117
FitzPrefixLen == 18

\* len(" | PyPDF2 decrypt error: "), line 140
DecryptPrefixLen == 25

\* len(" | OCR error: "), line 156
OcrPrefixLen == 14

\* len(" | no text detected; check OCR dependencies or password"), line 159
NoDetectLen == 55

\* the position of "no text" in that string, line 159
NoDetectAt == 4

\* f"pdfplumber error: {e}" and the like
ErrorNote(kind, prefixLen, lead, msg) ==
  [ kind |-> kind, len |-> prefixLen + msg.len, full |-> prefixLen + msg.len,
    nt |-> IF msg.nt = 0 THEN 0 ELSE prefixLen + msg.nt, lead |-> lead ]

\* "text extracted (pdfplumber)" and the like; their lengths play no part
SuccessNote(kind) == [ kind |-> kind, len |-> 1, full |-> 1, nt |-> 0, lead |-> FALSE ]

NoDetectNote ==
  [ kind |-> "no text detected", len |-> NoDetectLen, full |-> NoDetectLen,
    nt |-> NoDetectAt, lead |-> TRUE ]

RECURSIVE Truncate(_, _)
\* note[:cap]
Truncate(note, cap) ==
  IF note = <<>> \/ cap <= 0 THEN <<>>
  ELSE IF Head(note).len <= cap
       THEN <<Head(note)>> \o Truncate(Tail(note), cap - Head(note).len)
       ELSE << [Head(note) EXCEPT !.len = cap] >>

\* a note assigned where the code appends
AppendNoteAssigns(note, frag) == Truncate(<<frag>>, NoteCap)

\* (note + fragment)[:1000], lines 117, 140, 156
AppendNote(note, frag) == Truncate(note \o <<frag>>, NoteCap)

\* "no text" in note.lower(), line 121
HasNoText(note) ==
  \E i \in 1..Len(note) :
    note[i].nt > 0 /\ note[i].nt + NoTextLen - 1 <= note[i].len

\* note.strip(), line 159: only a leading space can be stripped
StripNote(note) ==
  IF note # <<>> /\ note[1].lead
  THEN << [ note[1] EXCEPT !.len = @ - 1, !.full = @ - 1,
                            !.nt = IF @ = 0 THEN 0 ELSE @ - 1,
                            !.lead = FALSE ] >> \o Tail(note)
  ELSE note

(***************************************************************************)
(* State                                                                   *)
(***************************************************************************)
VARIABLES
  pc,            \* where the upload handler and its callees stand
  env,           \* which optional modules were importable (lines 8-27)
  force_ocr,     \* app.py line 24
  password,      \* app.py's variable password (lines 27-28, 37)
  arg_password,  \* the parameter password of process_pdf_to_df/extract_text
  diag,          \* extract_text's diag (line 69)
  text,          \* the text extract_text returned (line 44)
  bank,          \* line 49
  df,            \* the frame of transactions (lines 46, 51, 53)
  cdf,           \* df_cat of app.py line 58
  ran,           \* history: how each stage of the cascade ended
  calls          \* history: the functions process_pdf_to_df called after extract_text

vars ==
  <<pc, env, force_ocr, password, arg_password, diag, text, bank, df, cdf,
    ran, calls>>

\* Python's None
None == "None"

Stages == {"pdfplumber", "pymupdf", "ocr"}

\* line 69
EmptyDiag == [engine |-> "", pages |-> 0, note |-> <<>>]

NotRun == [s \in Stages |-> "not run"]

Init ==
  /\ pc = "app_idle"
  /\ env \in [fitz : BOOLEAN, ocr : BOOLEAN, pypdf2 : BOOLEAN]
  /\ force_ocr = FALSE
  /\ password = None
  /\ arg_password = None
  /\ diag = EmptyDiag
  /\ text = <<>>
  /\ bank = ""
  /\ df = <<>>
  /\ cdf = <<>>
  /\ ran = NotRun
  /\ calls = {}

(***************************************************************************)
(* The upload handler up to the call (app.py lines 24-36)                  *)
(***************************************************************************)
Upload ==
  /\ pc = "app_idle"
  /\ \E checked \in BOOLEAN, typed \in {"", "pw"} :
       /\ force_ocr' = checked
       /\ password' = IF typed = "" THEN None ELSE typed
       /\ arg_password' = IF typed = "" THEN None ELSE typed
  /\ pc' = "read"
  /\ UNCHANGED <<env, diag, text, bank, df, cdf, ran, calls>>

(***************************************************************************)
(* extract_text (utils.py lines 61-160)                                    *)
(***************************************************************************)
\* lines 69-70: the read of the upload is outside every try
ReadUpload ==
  /\ pc = "read"
  /\ diag' = EmptyDiag
  /\ \E ok \in BOOLEAN :
       IF ok THEN pc' = "pdfplumber" /\ UNCHANGED arg_password
       ELSE pc' = "raised" /\ arg_password' = None
  /\ UNCHANGED <<env, force_ocr, password, text, bank, df, cdf, ran, calls>>

\* where the cascade goes on after a stage that returned no text
NextStage(stage) ==
  CASE stage = "pdfplumber" -> "pymupdf"
    [] stage = "pymupdf"    -> "ocr"
    [] stage = "ocr"        -> "no_text"

\* a cascade whose OCR stage lets its exception out
AfterErrorOcrUncaught(stage) ==
  IF stage = "ocr" THEN "raised" ELSE NextStage(stage)

\* the except clauses of lines 86, 116, 155: an exception raised in a
\* stage is caught there and the cascade goes on
AfterError(stage) == NextStage(stage)

\* the note after an exception in a stage: line 87 assigns, lines 117 and
\* 156 append and cut
ErrorNoteOf(stage, note, msg) ==
  CASE stage = "pdfplumber" ->
         << ErrorNote("pdfplumber error", PlumberPrefixLen, FALSE, msg) >>
    [] stage = "pymupdf" ->
         AppendNote(note, ErrorNote("pymupdf error", FitzPrefixLen, TRUE, msg))
    [] stage = "ocr" ->
         AppendNote(note, ErrorNote("OCR error", OcrPrefixLen, TRUE, msg))

\* the note a stage sets when it has text: lines 84, 114, 153
SuccessNoteOf(stage, note) == << SuccessNote(stage) >>

\* a stage whose open raised: the engine tag and the page count stay
StageOpenError(stage, msg, base) ==
  /\ diag' = [diag EXCEPT !.note = ErrorNoteOf(stage, base, msg)]
  /\ ran' = [ran EXCEPT ![stage] = "open_error"]
  /\ pc' = AfterError(stage)
  /\ UNCHANGED text

\* a stage that opened a document of n pages and raised while reading it
StageReadError(stage, msg, n, base) ==
  /\ diag' = [engine |-> stage, pages |-> n, note |-> ErrorNoteOf(stage, base, msg)]
  /\ ran' = [ran EXCEPT ![stage] = "read_error"]
  /\ pc' = AfterError(stage)
  /\ UNCHANGED text

\* a stage that opened a document and read the text of each of its pages
StageRead(stage, pages, base) ==
  LET t == Join(pages, <<NL>>)
  IN IF Strip(t) # <<>>
     THEN /\ diag' = [engine |-> stage, pages |-> Len(pages),
                      note |-> SuccessNoteOf(stage, base)]
          /\ ran' = [ran EXCEPT ![stage] = "text"]
          /\ text' = t
          /\ pc' = "process"
     ELSE /\ diag' = [engine |-> stage, pages |-> Len(pages), note |-> base]
          /\ ran' = [ran EXCEPT ![stage] = "empty"]
          /\ pc' = NextStage(stage)
          /\ UNCHANGED text

\* lines 72-87
StagePdfplumber ==
  /\ pc = "pdfplumber"
  /\ \/ \E msg \in Messages : StageOpenError("pdfplumber", msg, diag.note)
     \/ \E msg \in Messages, n \in 0..MaxPages :
          StageReadError("pdfplumber", msg, n, diag.note)
     \/ \E pages \in PageLists : StageRead("pdfplumber", pages, diag.note)
  /\ UNCHANGED <<env, force_ocr, password, arg_password, bank, df, cdf, calls>>

\* lines 95-106: whether a document is at hand after the two opens.  open1
\* is how fitz.open(stream=raw) ends, auth what doc.authenticate returns,
\* open2 how the open with the password ends
FitzOpened(open1, auth, open2) ==
  \/ open1 = "ok"
  \/ open1 = "encrypted" /\ arg_password # None /\ auth
  \/ open2 = "ok"

\* lines 89-117
StagePyMuPDF ==
  /\ pc = "pymupdf"
  /\ IF ~env.fitz
     THEN /\ pc' = NextStage("pymupdf")
          /\ ran' = [ran EXCEPT !["pymupdf"] = "skipped"]
          /\ UNCHANGED <<diag, text>>
     ELSE \E open1 \in {"ok", "encrypted", "error"}, auth \in BOOLEAN,
             open2 \in {"ok", "error"} :
            IF ~FitzOpened(open1, auth, open2)
            THEN \E msg \in Messages : StageOpenError("pymupdf", msg, diag.note)
            ELSE \/ \E msg \in Messages, n \in 0..MaxPages :
                      StageReadError("pymupdf", msg, n, diag.note)
                 \/ \E pages \in PageLists : StageRead("pymupdf", pages, diag.note)
  /\ UNCHANGED <<env, force_ocr, password, arg_password, bank, df, cdf, calls>>

\* line 121
OcrWanted == (force_ocr \/ HasNoText(diag.note)) /\ env.ocr

\* lines 123-141: the notes the decryption to bytes can leave: the PyPDF2
\* calls are made with a password and PdfReader at hand, and may raise
DecryptNotes(note) ==
  {note} \cup
  IF arg_password # None /\ env.pypdf2
  THEN { AppendNote(note, ErrorNote("PyPDF2 decrypt error", DecryptPrefixLen, TRUE, msg)) :
           msg \in Messages }
  ELSE {}

\* lines 119-156
StageOCR ==
  /\ pc = "ocr"
  /\ IF ~OcrWanted
     THEN /\ pc' = NextStage("ocr")
          /\ ran' = [ran EXCEPT !["ocr"] = "skipped"]
          /\ UNCHANGED <<diag, text>>
     ELSE \E base \in DecryptNotes(diag.note) :
            \/ \E msg \in Messages : StageOpenError("ocr", msg, base)
            \/ \E msg \in Messages, n \in 0..MaxPages :
                 StageReadError("ocr", msg, n, base)
            \/ \E pages \in PageLists : StageRead("ocr", pages, base)
  /\ UNCHANGED <<env, force_ocr, password, arg_password, bank, df, cdf, calls>>

\* an engine tag reset whenever no text was found
FinalEngineAlwaysNone(engine) == "none"

\* line 158: diag.get("engine") or "none"
FinalEngine(engine) == IF engine = "" THEN "none" ELSE engine

\* lines 158-160
ExtractNoText ==
  /\ pc = "no_text"
  /\ diag' = [diag EXCEPT !.engine = FinalEngine(@),
                          !.note = StripNote(@ \o <<NoDetectNote>>)]
  /\ text' = <<>>
  /\ pc' = "process"
  /\ UNCHANGED <<env, force_ocr, password, arg_password, bank, df, cdf, ran, calls>>

(***************************************************************************)
(* process_pdf_to_df after extract_text (utils.py lines 45-58)             *)
(***************************************************************************)
\* line 45: not text.strip()
IsEmptyText(t) == Strip(t) = <<>>

\* lines 45-47
ProcessCheck ==
  /\ pc = "process"
  /\ IF IsEmptyText(text)
     THEN df' = <<>> /\ arg_password' = None /\ pc' = "app_scrub"
     ELSE pc' = "detect" /\ UNCHANGED <<df, arg_password>>
  /\ UNCHANGED <<env, force_ocr, password, diag, text, bank, cdf, ran, calls>>

\* line 49
DetectBank ==
  /\ pc = "detect"
  /\ bank' = detect_bank(text)
  /\ calls' = calls \cup {"detect_bank"}
  /\ pc' = "parse"
  /\ UNCHANGED <<env, force_ocr, password, arg_password, diag, text, df, cdf, ran>>

\* lines 50-51
ParseKotak ==
  /\ pc = "parse"
  /\ bank = "kotak"
  /\ df' = parse_kotak_statement(text)
  /\ calls' = calls \cup {"parse_kotak_statement"}
  /\ pc' = "parsed"
  /\ UNCHANGED <<env, force_ocr, password, arg_password, diag, text, bank, cdf, ran>>

\* lines 52-53
ParseGeneric ==
  /\ pc = "parse"
  /\ bank # "kotak"
  /\ df' = parse_text_generic(text)
  /\ calls' = calls \cup {"parse_text_generic"}
  /\ pc' = "parsed"
  /\ UNCHANGED <<env, force_ocr, password, arg_password, diag, text, bank, cdf, ran>>

\* lines 55-58
ProcessReturn ==
  /\ pc = "parsed"
  /\ arg_password' = None
  /\ pc' = "app_scrub"
  /\ UNCHANGED <<env, force_ocr, password, diag, text, bank, df, cdf, ran, calls>>

(***************************************************************************)
(* The upload handler after the call (app.py lines 37-70)                  *)
(***************************************************************************)
\* line 37
AppScrub ==
  /\ pc = "app_scrub"
  /\ password' = None
  /\ pc' = "app_show"
  /\ UNCHANGED <<env, force_ocr, arg_password, diag, text, bank, df, cdf, ran, calls>>

\* lines 47-58
AppShow ==
  /\ pc = "app_show"
  /\ cdf' = IF df = <<>> THEN <<>> ELSE categorize_transactions(df)
  /\ pc' = "app_done"
  /\ UNCHANGED <<env, force_ocr, password, arg_password, diag, text, bank, df, ran, calls>>

Next ==
  \/ Upload
  \/ ReadUpload
  \/ StagePdfplumber
  \/ StagePyMuPDF
  \/ StageOCR
  \/ ExtractNoText
  \/ ProcessCheck
  \/ DetectBank
  \/ ParseKotak
  \/ ParseGeneric
  \/ ProcessReturn
  \/ AppScrub
  \/ AppShow

\* one upload, from the widgets to the dashboard
Spec == Init /\ [][Next]_vars

(***************************************************************************)
(* The parsers on every statement text                                     *)
(***************************************************************************)
InitParse ==
  /\ pc = "detect"
  /\ text \in ParseTexts
  /\ env = [fitz |-> TRUE, ocr |-> TRUE, pypdf2 |-> TRUE]
  /\ force_ocr = FALSE
  /\ password = None
  /\ arg_password = None
  /\ diag = [engine |-> "pdfplumber", pages |-> 1,
             note |-> << SuccessNote("pdfplumber") >>]
  /\ bank = ""
  /\ df = <<>>
  /\ cdf = <<>>
  /\ ran = [NotRun EXCEPT !["pdfplumber"] = "text"]
  /\ calls = {}

NextParse == DetectBank \/ ParseKotak \/ ParseGeneric

SpecParse == InitParse /\ [][NextParse]_vars

(***************************************************************************)
(* The categorizer on every frame                                          *)
(***************************************************************************)
InitCat ==
  /\ pc = "app_show"
  /\ df \in Frames
  /\ env = [fitz |-> TRUE, ocr |-> TRUE, pypdf2 |-> TRUE]
  /\ force_ocr = FALSE
  /\ password = None
  /\ arg_password = None
  /\ diag = [engine |-> "pdfplumber", pages |-> 1,
             note |-> << SuccessNote("pdfplumber") >>]
  /\ text = <<>>
  /\ bank = "generic"
  /\ cdf = <<>>
  /\ ran = [NotRun EXCEPT !["pdfplumber"] = "text"]
  /\ calls = {"detect_bank", "parse_text_generic"}

NextCat == AppShow

SpecCat == InitCat /\ [][NextCat]_vars

(***************************************************************************)
(* The cascade's contract                                                  *)
(***************************************************************************)
\* process_pdf_to_df has returned to the upload handler
Returned == pc \in {"app_scrub", "app_show", "app_done"}

\* extract_text has returned to process_pdf_to_df, or beyond
Extracted == pc \in {"process", "detect", "parse", "parsed"} \/ Returned

\* the stage was attempted: its try block was entered
Attempted(stage) == ran[stage] \in {"open_error", "read_error", "empty", "text"}

\* the stage ended without non-empty text: empty text or an exception
Fruitless(stage) == ran[stage] \in {"open_error", "read_error", "empty"}

\* C1: whatever the stages do (text, no text, an exception, a module that
\* is not installed) and whatever force_ocr and password are,
\* process_pdf_to_df never raises out of a stage: the only raise is that of
\* the upload's read, before any stage was entered.  When no stage produced
\* text it returns no transactions, the text "" and a note, and has called
\* neither detect_bank nor a parser.
C1_NeverRaises ==
  /\ pc = "raised" => \A s \in Stages : ran[s] = "not run"
  /\ (Returned /\ \A s \in Stages : ran[s] # "text") =>
       /\ df = <<>>
       /\ text = <<>>
       /\ diag.note # <<>>
       /\ calls = {}

\* every stage ran and raised, and the call returned the empty result
C1_Witness ==
  /\ Returned
  /\ ran["pdfplumber"] = "open_error"
  /\ ran["pymupdf"] = "read_error"
  /\ ran["ocr"] = "open_error"
  /\ df = <<>>

\* C2: a stage is attempted only if every earlier stage produced no text,
\* and with force_ocr and the OCR modules at hand the text-layer stages are
\* skipped: the text returned never is pdfplumber's or PyMuPDF's with OCR
\* not run.
C2_ForcedOcrSkipsTextLayer ==
  /\ Attempted("pymupdf") => ran["pdfplumber"] # "text"
  /\ Attempted("ocr") => ran["pdfplumber"] # "text" /\ ran["pymupdf"] # "text"
  /\ (Extracted /\ force_ocr /\ env.ocr) =>
       ~(diag.engine \in {"pdfplumber", "pymupdf"} /\ ~Attempted("ocr"))

\* C3: when pdfplumber and PyMuPDF both ended without text and the OCR
\* modules are importable, the OCR stage is attempted, forced or not.
C3_OcrWithoutTextLayer ==
  (Extracted /\ Fruitless("pdfplumber") /\ Fruitless("pymupdf") /\ env.ocr) =>
    Attempted("ocr")

\* the text-layer stages opened the document and found no text in it, and
\* the OCR modules are not importable
NoTextLayerNoOcr ==
  /\ Returned
  /\ ran["pdfplumber"] = "empty"
  /\ ran["pymupdf"] \in {"empty", "skipped"}
  /\ ~env.ocr

\* C4 as claimed: such a document gives no transactions, the text "", the
\* engine 'none' and a note that contains "no text".
C4_EngineNone ==
  NoTextLayerNoOcr =>
    /\ df = <<>>
    /\ text = <<>>
    /\ diag.engine = "none"
    /\ HasNoText(diag.note)

\* C4 as amended: such a document gives no transactions, the text "", a
\* note that contains "no text", and the engine tag of the last text-layer
\* stage that opened it: 'pymupdf' when PyMuPDF is installed, else
\* 'pdfplumber'.
C4_EngineOfLastOpen ==
  NoTextLayerNoOcr =>
    /\ df = <<>>
    /\ text = <<>>
    /\ diag.engine = IF ran["pymupdf"] = "empty" THEN "pymupdf" ELSE "pdfplumber"
    /\ HasNoText(diag.note)

\* both text-layer stages opened the document and found nothing
C4_Witness ==
  /\ NoTextLayerNoOcr
  /\ ran["pymupdf"] = "empty"
  /\ diag.pages > 0

\* C7: once the call is over, by a return or by an exception, the upload
\* handler's password is None.
C7_PasswordCleared ==
  pc \in {"app_show", "app_done", "raised"} => password = None

(***************************************************************************)
(* The diagnostics of the cascade                                          *)
(***************************************************************************)
\* the stage raised, at its open or after it
Failed(stage) == ran[stage] \in {"open_error", "read_error"}

\* the stage opened the document
Opened(stage) == ran[stage] \in {"read_error", "empty", "text"}

\* the tag of the last stage the cascade entered
LastAttempted ==
  IF Attempted("ocr") THEN "ocr"
  ELSE IF Attempted("pymupdf") THEN "pymupdf"
  ELSE "pdfplumber"

\* the tag of the last stage that opened the document, 'none' without one
LastOpened ==
  IF Opened("ocr") THEN "ocr"
  ELSE IF Opened("pymupdf") THEN "pymupdf"
  ELSE IF Opened("pdfplumber") THEN "pdfplumber"
  ELSE "none"

\* what the error note of a stage says
ErrorKind(stage) ==
  CASE stage = "pdfplumber" -> "pdfplumber error"
    [] stage = "pymupdf"    -> "pymupdf error"
    [] stage = "ocr"        -> "OCR error"

\* the error notes the cascade wrote, in its order
FailedKinds ==
  (IF Failed("pdfplumber") THEN <<ErrorKind("pdfplumber")>> ELSE <<>>)
  \o (IF Failed("pymupdf") THEN <<ErrorKind("pymupdf")>> ELSE <<>>)
  \o (IF Failed("ocr") THEN <<ErrorKind("ocr")>> ELSE <<>>)

RECURSIVE NoteLen(_)
\* the number of characters of a note
NoteLen(note) ==
  IF note = <<>> THEN 0 ELSE Head(note).len + NoteLen(Tail(note))

\* the note but for its last fragment
Front(note) == SubSeq(note, 1, Len(note) - 1)

\* the number of characters of the error notes the cascade accumulated:
\* every note but pdfplumber's begins with " | ", whose space the strip of
\* line 159 took from the first one
Accumulated(note) ==
  IF Front(note) = <<>> THEN 0
  ELSE NoteLen(Front(note)) + (IF note[1].kind = "pdfplumber error" THEN 0 ELSE 1)

IsStageError(frag) == frag.kind # "PyPDF2 decrypt error"

\* what the fragments of a note say, in order
KindsOf(note) == [i \in 1..Len(note) |-> note[i].kind]

\* C10 as claimed: the engine is the tag of the last stage attempted, a
\* failed one included, and the note contains the note of every stage that
\* failed, also when a later stage had text.
C10_LastAttemptedAllNotes ==
  Extracted =>
    /\ diag.engine = LastAttempted
    /\ \A s \in Stages :
         Failed(s) => \E i \in 1..Len(diag.note) : diag.note[i].kind = ErrorKind(s)

\* C10 as amended: the engine is the tag of the last stage that opened the
\* document ('none' when none did).  When a stage had text the note is that
\* stage's success note alone.  When none had, the note ends with the whole
\* 'no text detected' note, and as long as the error notes, each with its
\* " | " separator, are together shorter than 1000 characters it holds the
\* whole error note of every failed stage, in the order of the cascade.
C10_LastOpenedNotesOnFailure ==
  Extracted =>
    /\ diag.engine = LastOpened
    /\ \A s \in Stages : ran[s] = "text" => diag.note = << SuccessNote(s) >>
    /\ (\A s \in Stages : ran[s] # "text") =>
         /\ diag.note # <<>>
         /\ diag.note[Len(diag.note)].kind = "no text detected"
         /\ diag.note[Len(diag.note)].len = diag.note[Len(diag.note)].full
         /\ Accumulated(diag.note) < NoteCap =>
              /\ KindsOf(SelectSeq(Front(diag.note), IsStageError)) = FailedKinds
              /\ \A i \in 1..Len(diag.note) : diag.note[i].len = diag.note[i].full

\* the three stages failed, PyMuPDF after it had opened the document, and
\* the note holds the three error notes and the closing one
C10_Witness ==
  /\ Extracted
  /\ ran["pdfplumber"] = "open_error"
  /\ ran["pymupdf"] = "read_error"
  /\ ran["ocr"] = "open_error"
  /\ diag.engine = "pymupdf"
  /\ Len(diag.note) = 4
  /\ NoteLen(diag.note) < NoteCap

(***************************************************************************)
(* The categorizer                                                         *)
(***************************************************************************)
\* the positions of the rules whose pattern matches the lower-cased
\* description
MatchingRules(desc) ==
  { k \in 1..Len(CATEGORY_RULES) : RuleMatches(CATEGORY_RULES[k], LowerSeq(desc)) }

\* the category of the first matching rule, 'Other' without one
FirstMatch(desc) ==
  IF MatchingRules(desc) = {} THEN "Other"
  ELSE CATEGORY_RULES[MinOf(MatchingRules(desc))].cat

\* C5: every transaction shown has the category of the first rule of
\* CATEGORY_RULES that matches its lower-cased description, and 'Other'
\* when none matches.
C5_FirstMatchWins ==
  pc = "app_done" =>
    /\ Len(cdf) = Len(df)
    /\ \A i \in 1..Len(df) : cdf[i].Category = FirstMatch(df[i].Description)

(***************************************************************************)
(* The parsers                                                             *)
(***************************************************************************)
\* the value, in hundredths, of an integer token read as a whole, its sign
\* dropped
WholeAmount(tok) ==
  100 * DigitsValue(IF tok[1] \in {"+", "-"} THEN Tail(tok) ELSE tok)

\* the type a trailing CREDIT or DEBIT marker names
MarkerType(mark) == IF mark = TokCREDIT THEN "Credit" ELSE "Debit"

\* C6: a line '<date> <date> <narration> <amount> <balance> <CREDIT|DEBIT>'
\* with integer amount and balance parses to exactly one transaction, whose
\* amount is the absolute value of the whole amount token and whose type is
\* the one the trailing marker names.
C6_ScenarioLineAmountAndType ==
  pc = "parsed" =>
    \A f \in ScenarioForms :
      text = ScenarioLine(f) =>
        /\ Len(df) = 1
        /\ df[1].Amount = WholeAmount(f.amt)
        /\ df[1].Type = MarkerType(f.mark)

RECURSIVE WordRun(_, _)
\* the number of consecutive word characters from position i
WordRun(s, i) ==
  IF i >= 1 /\ i <= Len(s) /\ IsWordChar(s[i]) THEN 1 + WordRun(s, i + 1) ELSE 0

\* the words of s: its maximal runs of letters, digits and underscores
WordsOf(s) ==
  { SubSeq(s, i, i + WordRun(s, i) - 1) :
      i \in { k \in 1..Len(s) :
                IsWordChar(s[k]) /\ (k = 1 \/ ~IsWordChar(s[k - 1])) } }

\* a word 'cr', 'credit' or 'deposit', in any case
HasCreditKeyword(blk) ==
  WordsOf(LowerSeq(blk)) \cap
    { <<"c", "r">>, <<"c", "r", "e", "d", "i", "t">>,
      <<"d", "e", "p", "o", "s", "i", "t">> } # {}

\* a word 'dr' or 'debit', or a word that starts with 'withdraw', in any case
HasDebitKeyword(blk) ==
  \E w \in WordsOf(LowerSeq(blk)) :
    \/ w \in { <<"d", "r">>, <<"d", "e", "b", "i", "t">> }
    \/ StartsWithAt(w, 1, <<"w", "i", "t", "h", "d", "r", "a", "w">>)

\* the blocks of the statement
BlocksOf(t) == KotakBlocks(MapRStrip(SplitLines(t)), <<>>)

\* how many of the first n blocks have a date
DatedUpTo(blocks, n) == Cardinality({ j \in 1..n : HasDate(blocks[j]) })

\* C8: every block with a date yields one transaction, in the order of the
\* blocks, and the transaction of a block that contains both a credit
\* keyword and a debit keyword is typed Debit, whichever comes first.
C8_DebitKeywordOverrides ==
  (pc = "parsed" /\ bank = "kotak") =>
    LET blocks == BlocksOf(text)
    IN /\ Len(df) = DatedUpTo(blocks, Len(blocks))
       /\ \A b \in 1..Len(blocks) :
            (HasDate(blocks[b]) /\ HasCreditKeyword(blocks[b])
               /\ HasDebitKeyword(blocks[b])) =>
              df[DatedUpTo(blocks, b)].Type = "Debit"

\* a statement whose dated block has a credit keyword before a debit
\* keyword was parsed to a Debit transaction
C8_Witness ==
  /\ pc = "parsed"
  /\ bank = "kotak"
  /\ text = Join(<<LineKotakName, LineKotakBoth>>, <<NL>>)
  /\ Len(df) = 1
  /\ df[1].Type = "Debit"

\* the line is not blank, has a date token and has a digit
YieldsRow(ln) ==
  /\ Strip(ln) # <<>>
  /\ HasDate(ln)
  /\ \E k \in 1..Len(ln) : IsDigit(ln[k])

TypeOfMarker(ln) ==
  IF LowerSeq(SubSeq(ln, MarkerPos(ln), MarkerPos(ln) + 1)) = <<"c", "r">>
  THEN "Credit"
  ELSE "Debit"

\* C11: the transaction of a line that has a CR/DR marker token has the type
\* the marker names, whatever else the line says: with a DR or DEBIT marker
\* it is never Credit.
C11_MarkerDecidesType ==
  (pc = "parsed" /\ bank = "generic") =>
    LET yielding == SelectSeq(SplitLines(text), YieldsRow)
    IN \A i \in 1..Len(df) :
         (i <= Len(yielding) /\ MarkerPos(yielding[i]) # 0) =>
           df[i].Type = TypeOfMarker(yielding[i])

\* the line has a header or summary keyword: 'opening' or 'closing', in
\* any case
IsHeaderLine(ln) ==
  \/ Contains(LowerSeq(ln), <<"o", "p", "e", "n", "i", "n", "g">>)
  \/ Contains(LowerSeq(ln), <<"c", "l", "o", "s", "i", "n", "g">>)

\* the block has a line that is not a header or summary line
HasEntryLine(blk) == \E k \in 1..Len(SplitLines(blk)) : ~IsHeaderLine(SplitLines(blk)[k])

\* a line of a generic statement that yields and is no header or summary line
YieldsEntry(ln) == YieldsRow(ln) /\ ~IsHeaderLine(ln)

\* C12: header and summary lines give no transaction in either parser: the
\* generic parser has no more transactions than lines with a date and a
\* number that are no header lines, and the kotak parser no more than dated
\* blocks that have a line which is no header line.
C12_HeaderLinesYieldNothing ==
  pc = "parsed" =>
    IF bank = "kotak"
    THEN Len(df) <= Cardinality({ b \in 1..Len(BlocksOf(text)) :
                                    /\ HasDate(BlocksOf(text)[b])
                                    /\ HasEntryLine(BlocksOf(text)[b]) })
    ELSE Len(df) <= Len(SelectSeq(SplitLines(text), YieldsEntry))

\* the lines of the statement that start with a date token
LeadingDateLines(t) == SelectSeq(MapRStrip(SplitLines(t)), DateHead)

\* C13: every transaction of the kotak parser comes from a block headed by
\* a line that starts with a date token: there are no more transactions
\* than such lines, and the lines before the first of them give none, so a
\* block that has a date starts with one.
C13_BlocksHeadedByDate ==
  (pc = "parsed" /\ bank = "kotak") =>
    /\ Len(df) <= Len(LeadingDateLines(text))
    /\ \A b \in 1..Len(BlocksOf(text)) :
         HasDate(BlocksOf(text)[b]) => DateHead(BlocksOf(text)[b])

====
